---------------------------- MODULE Spec2Model ----------------------------
(***************************************************************************)
(* spotility (src/src/main.rs): the `top` workflow (get_liked_songs,       *)
(* empty_playlist, populate_playlist) and the `update-db` / `rate`         *)
(* workflows over the persisted rating database.                           *)
(*                                                                         *)
(* A SavedTrack is the record [id, added_at].  The remote library of liked *)
(* songs is the sequence `liked`; a page request returns a slice of it.    *)
(* Ratings (f32 in the source) are modelled by integers: the values the    *)
(* workflows here produce and compare are the literals 1., 2., 3., 4.      *)
(***************************************************************************)
EXTENDS Integers, Sequences, FiniteSets, TLC

VARIABLES
    cmd,              \* the subcommand of the running process
    pc,               \* position of main
    amount,           \* AMOUNT (top) or LIMIT (update-db), a u32
    liked,            \* remote: the user's saved tracks, newest first
    pages,            \* get_liked_songs: one spawned task per batch
    fetchRes,         \* get_liked_songs: its return value
    song_ids,         \* top: liked_songs_ids
    remote_playlists, \* remote: the user's first playlists, [name, items]
    api_calls,        \* remote: number of search / replace / create calls seen
    playlist_id,      \* top: the id empty_playlist returned (an index)
    tasks,            \* populate_playlist: one future per chunk
    reports,          \* populate_playlist: the chunks printed as failed
    populateRes,      \* populate_playlist: its return value
    db,               \* the rating database file
    ratings,          \* update-db / rate: the loaded HashMap
    rate_args,        \* rate: [rating, playing]
    merged_before,    \* the tracks of the last update-db run that was saved,
                      \* and whether a rate run was saved after it
    ratings_vec,      \* weights: the entries of the map as a vector
    weights           \* weights: the feed, as a sequence of tokens

vars == << cmd, pc, amount, liked, pages, fetchRes, song_ids, remote_playlists,
           api_calls, playlist_id, tasks, reports, populateRes, db, ratings,
           rate_args, merged_before, ratings_vec, weights >>

fetch_vars == << pages, fetchRes >>
top_vars == << song_ids, remote_playlists, api_calls, playlist_id, tasks,
               reports, populateRes >>
db_vars == << db, ratings, rate_args, merged_before >>
rank_vars == << ratings_vec, weights >>

---------------------------------------------------------------------------
(* Bounds of the model *)

\* largest AMOUNT of a `top` run
MaxAmount == 120
\* largest remote library of a `top` run
MaxLib == 102

Min(a, b) == IF a < b THEN a ELSE b

NoValue == "none"

---------------------------------------------------------------------------
(* get_liked_songs: the batch arithmetic (u32; no value here reaches 2^32) *)

batch_size == 50

full_batches(n) == n \div batch_size

final_batch_size(n) == n % batch_size

batches_amount(n) ==
    IF final_batch_size(n) > 0 THEN full_batches(n) + 1 ELSE full_batches(n)

\* i is the 0-based batch index of the source
batch_offset(i) == i * batch_size

\* (mutant) the last batch asks for a full page too
current_batch_size_full(n, i) == batch_size

current_batch_size(n, i) ==
    IF i = full_batches(n) /\ final_batch_size(n) > 0
    THEN final_batch_size(n)
    ELSE batch_size

\* the remote's answer to current_user_saved_tracks_manual(limit, offset)
FetchPage(lib, offset, limit) ==
    SubSeq(lib, offset + 1, Min(offset + limit, Len(lib)))

\* the tasks spawned by join_all(tasks): task i+1 is batch i
SpawnPages(n) ==
    [k \in 1..batches_amount(n) |->
        [offset |-> batch_offset(k - 1),
         limit |-> current_batch_size(n, k - 1),
         st |-> "spawned", requests |-> 0, items |-> << >>]]

\* (mutant) a join that returns as soon as one task has failed
AllPagesSettledOrOneFailed ==
    \/ \A k \in 1..Len(pages) : pages[k].st \in {"ok", "err"}
    \/ \E k \in 1..Len(pages) : pages[k].st = "err"

\* join_all(tasks).await is ready when every JoinHandle is
AllPagesSettled == \A k \in 1..Len(pages) : pages[k].st \in {"ok", "err"}

RECURSIVE ConcatReversed(_, _)
\* (mutant) every page is put in front of the tracks collected so far
ConcatReversed(ps, k) ==
    IF k = 0 THEN << >> ELSE ps[k].items \o ConcatReversed(ps, k - 1)

RECURSIVE Concat(_, _)
\* all_tracks after extending it with pages 1..k, in task order
Concat(ps, k) == IF k = 0 THEN << >> ELSE Concat(ps, k - 1) \o ps[k].items

\* (mutant) the failed pages are skipped and the rest is returned
CollectPagesSalvage(ps) ==
    [ok |-> TRUE, err |-> 0, tracks |-> Concat(ps, Len(ps))]

\* the for loop over the joined results: `??` returns the first Err met
CollectPages(ps) ==
    IF \E k \in 1..Len(ps) : ps[k].st = "err"
    THEN [ok |-> FALSE,
          err |-> (CHOOSE k \in 1..Len(ps) : /\ ps[k].st = "err"
                                             /\ \A j \in 1..(k - 1) : ps[j].st # "err"),
          tracks |-> << >>]
    ELSE [ok |-> TRUE, err |-> 0, tracks |-> Concat(ps, Len(ps))]

---------------------------------------------------------------------------
(* get_liked_songs: the actions *)

\* get_liked_songs is entered: every batch task is spawned before the join
GetLikedSongs ==
    /\ pc = "start"
    /\ cmd \in {"top", "update-db"}
    /\ pages' = SpawnPages(amount)
    /\ pc' = "join_fetch"
    /\ UNCHANGED << rank_vars,
                    cmd, amount, liked, fetchRes, top_vars, db_vars >>

\* a spawned task runs and sends its one request
PageRequest(k) ==
    /\ pages[k].st = "spawned"
    /\ pages' = [pages EXCEPT ![k].st = "inflight", ![k].requests = @ + 1]
    /\ UNCHANGED << rank_vars,
                    cmd, pc, amount, liked, fetchRes, top_vars, db_vars >>

\* the remote answers with the page: the task ends Ok(items)
PageOk(k) ==
    /\ pages[k].st = "inflight"
    /\ pages' = [pages EXCEPT ![k].st = "ok",
                    ![k].items = FetchPage(liked, pages[k].offset, pages[k].limit)]
    /\ UNCHANGED << rank_vars,
                    cmd, pc, amount, liked, fetchRes, top_vars, db_vars >>

\* the remote call fails: the task ends Err(e), nothing is retried
PageErr(k) ==
    /\ pages[k].st = "inflight"
    /\ pages' = [pages EXCEPT ![k].st = "err"]
    /\ UNCHANGED << rank_vars,
                    cmd, pc, amount, liked, fetchRes, top_vars, db_vars >>

\* join_all(tasks).await returns and the results are collected in task order
FetchJoin ==
    /\ pc = "join_fetch"
    /\ AllPagesSettled
    /\ fetchRes' = CollectPages(pages)
    /\ pc' = "fetched"
    /\ UNCHANGED << rank_vars, cmd, amount, liked, pages, top_vars, db_vars >>

---------------------------------------------------------------------------
(* top: empty_playlist *)

playlist_name == "Top"

\* Some(50): the search asks for the first playlists only
search_limit == 50

\* liked_songs_ids: the id of every fetched track, in order
TrackIds(tracks) == [k \in 1..Len(tracks) |-> tracks[k].id]

\* (mutant) a failed fetch counts as no tracks and the run goes on
TopFetchedIgnoreErr ==
    /\ cmd = "top"
    /\ pc = "fetched"
    /\ song_ids' = TrackIds(fetchRes.tracks)
    /\ pc' = "search"
    /\ UNCHANGED << rank_vars,
                    cmd, amount, liked, fetch_vars, remote_playlists, api_calls,
                    playlist_id, tasks, reports, populateRes, db_vars >>

\* main, top: get_liked_songs(..).await.unwrap() and the call of empty_playlist
TopFetched ==
    /\ cmd = "top"
    /\ pc = "fetched"
    /\ IF fetchRes.ok
       THEN /\ song_ids' = TrackIds(fetchRes.tracks)
            /\ pc' = "search"
       ELSE /\ pc' = "panic"
            /\ UNCHANGED song_ids
    /\ UNCHANGED << rank_vars,
                    cmd, amount, liked, fetch_vars, remote_playlists, api_calls,
                    playlist_id, tasks, reports, populateRes, db_vars >>

\* what current_user_playlists_manual(Some(50), None) returns
SearchPage(pls) == SubSeq(pls, 1, Min(search_limit, Len(pls)))

\* (mutant) the name is compared without regard to case
FindPlaylistAnyCase(page, name) ==
    IF \E k \in 1..Len(page) : page[k].name \in {name, "top"}
    THEN page[CHOOSE k \in 1..Len(page) :
                 /\ page[k].name \in {name, "top"}
                 /\ \A j \in 1..(k - 1) : page[j].name \notin {name, "top"}].id
    ELSE 0

\* search_for_playlist: find the first playlist of the page with that exact name
FindPlaylist(page, name) ==
    IF \E k \in 1..Len(page) : page[k].name = name
    THEN page[CHOOSE k \in 1..Len(page) :
                 /\ page[k].name = name
                 /\ \A j \in 1..(k - 1) : page[j].name # name].id
    ELSE 0

SearchOk ==
    /\ pc = "search"
    /\ api_calls' = [api_calls EXCEPT !.search = @ + 1]
    /\ LET found == FindPlaylist(SearchPage(remote_playlists), playlist_name)
       IN  IF found # 0
           THEN playlist_id' = found /\ pc' = "replace"
           ELSE UNCHANGED playlist_id /\ pc' = "create"
    /\ UNCHANGED << rank_vars,
                    cmd, amount, liked, fetch_vars, song_ids, remote_playlists,
                    tasks, reports, populateRes, db_vars >>

\* the search fails: empty_playlist returns Err and main's unwrap panics
SearchErr ==
    /\ pc = "search"
    /\ api_calls' = [api_calls EXCEPT !.search = @ + 1]
    /\ pc' = "panic"
    /\ UNCHANGED << rank_vars,
                    cmd, amount, liked, fetch_vars, song_ids, remote_playlists,
                    playlist_id, tasks, reports, populateRes, db_vars >>

\* the remote's playlist_replace_items(id, empty_items)
ReplaceItems(pls, id) ==
    [k \in 1..Len(pls) |->
        IF pls[k].id = id THEN [pls[k] EXCEPT !.items = << >>] ELSE pls[k]]

ReplaceOk ==
    /\ pc = "replace"
    /\ api_calls' = [api_calls EXCEPT !.replace = @ + 1]
    /\ remote_playlists' = ReplaceItems(remote_playlists, playlist_id)
    /\ pc' = "populate"
    /\ UNCHANGED << rank_vars,
                    cmd, amount, liked, fetch_vars, song_ids, playlist_id,
                    tasks, reports, populateRes, db_vars >>

ReplaceErr ==
    /\ pc = "replace"
    /\ api_calls' = [api_calls EXCEPT !.replace = @ + 1]
    /\ pc' = "panic"
    /\ UNCHANGED << rank_vars,
                    cmd, amount, liked, fetch_vars, song_ids, remote_playlists,
                    playlist_id, tasks, reports, populateRes, db_vars >>

\* the remote's user_playlist_create(user, name, Some(false), Some(false), None)
NewPlaylist(pls, name) ==
    [id |-> Len(pls) + 1, name |-> name, items |-> << >>,
     public |-> FALSE, collaborative |-> FALSE]

CreateOk ==
    /\ pc = "create"
    /\ api_calls' = [api_calls EXCEPT !.create = @ + 1]
    /\ remote_playlists' =
           Append(remote_playlists, NewPlaylist(remote_playlists, playlist_name))
    /\ playlist_id' = Len(remote_playlists) + 1
    /\ pc' = "populate"
    /\ UNCHANGED << rank_vars,
                    cmd, amount, liked, fetch_vars, song_ids, tasks, reports,
                    populateRes, db_vars >>

CreateErr ==
    /\ pc = "create"
    /\ api_calls' = [api_calls EXCEPT !.create = @ + 1]
    /\ pc' = "panic"
    /\ UNCHANGED << rank_vars,
                    cmd, amount, liked, fetch_vars, song_ids, remote_playlists,
                    playlist_id, tasks, reports, populateRes, db_vars >>

---------------------------------------------------------------------------
(* top: populate_playlist *)

\* "Given by the spotify API docs"
populate_batch_size == 100

max_retries == 3

NumChunks(n) == (n + populate_batch_size - 1) \div populate_batch_size

\* (mutant) a chunk starts on the last id of the chunk before it
ChunkOverlap(ids, c) ==
    SubSeq(ids, IF c = 1 THEN 1 ELSE (c - 1) * populate_batch_size,
           Min(c * populate_batch_size, Len(ids)))

\* song_ids.chunks(batch_size): chunk c of the slice, c = 1, 2, ...
Chunk(ids, c) ==
    SubSeq(ids, (c - 1) * populate_batch_size + 1,
           Min(c * populate_batch_size, Len(ids)))

\* the futures handed to join_all, after its first poll: each one has built
\* chunk_vec from its own chunk and is waiting in playlist_add_items
SpawnTasks(ids) ==
    [c \in 1..NumChunks(Len(ids)) |->
        [chunk |-> Chunk(ids, c), st |-> "calling", retries |-> 0,
         calls |-> 1, sent |-> Chunk(ids, c), log |-> << >>]]

\* (mutant) the items of one call are appended last to first
AddItemsReversed(pls, id, items) ==
    [k \in 1..Len(pls) |->
        IF pls[k].id = id
        THEN [pls[k] EXCEPT !.items =
                 @ \o [i \in 1..Len(items) |-> items[Len(items) + 1 - i]]]
        ELSE pls[k]]

\* the remote's playlist_add_items(id, items, None): the items are appended
AddItems(pls, id, items) ==
    [k \in 1..Len(pls) |->
        IF pls[k].id = id THEN [pls[k] EXCEPT !.items = @ \o items] ELSE pls[k]]

\* (mutant) the guard lets one retry too many through
OnAddItemsErrOneMore(t) ==
    IF t.retries <= max_retries
    THEN [t EXCEPT !.retries = @ + 1, !.st = "sleeping", !.log = Append(@, "err")]
    ELSE [t EXCEPT !.st = "failed", !.log = Append(@, "err")]

\* the match arms of a task on Err(e)
OnAddItemsErr(t) ==
    IF t.retries < max_retries
    THEN [t EXCEPT !.retries = @ + 1, !.st = "sleeping", !.log = Append(@, "err")]
    ELSE [t EXCEPT !.st = "failed", !.log = Append(@, "err")]

\* (mutant) a task that gives up drops the futures still running
TasksAfterErrCancel(ts, c) ==
    [d \in 1..Len(ts) |->
        IF d = c
        THEN OnAddItemsErr(ts[c])
        ELSE IF ts[c].retries >= max_retries /\ ts[d].st \in {"calling", "sleeping"}
             THEN [ts[d] EXCEPT !.st = "failed"]
             ELSE ts[d]]

\* a failing call changes the task that made it and no other future of the join
TasksAfterErr(ts, c) == [ts EXCEPT ![c] = OnAddItemsErr(ts[c])]

\* the match arm of a task on Ok(_): return Ok(())
TasksAfterOk(ts, c) == [ts EXCEPT ![c].st = "ok", ![c].log = Append(@, "ok")]

\* (mutant) the sleep never ends
TasksAfterSleepStuck(ts, c) == ts

\* sleep(delay_between_retries) is over: the loop calls playlist_add_items again
TasksAfterSleep(ts, c) ==
    [ts EXCEPT ![c].st = "calling", ![c].calls = @ + 1, ![c].sent = ts[c].chunk]

\* join_all(tasks).await is ready when every future has returned
AllTasksSettled == \A c \in 1..Len(tasks) : tasks[c].st \in {"ok", "failed"}

\* the loop over the results: one line is printed per Err
FailureReports(ts) ==
    SelectSeq([c \in 1..Len(ts) |-> c], LAMBDA c : ts[c].st = "failed")

\* (mutant) the first failed chunk is returned as the error
PopulateReturnFirstErr(ts) ==
    IF \E c \in 1..Len(ts) : ts[c].st = "failed" THEN "Err" ELSE "Ok"

\* the value populate_playlist returns after the loop
PopulateReturn(ts) == "Ok"

PopulatePlaylist ==
    /\ pc = "populate"
    /\ tasks' = SpawnTasks(song_ids)
    /\ pc' = "join_populate"
    /\ UNCHANGED << rank_vars,
                    cmd, amount, liked, fetch_vars, song_ids, remote_playlists,
                    api_calls, playlist_id, reports, populateRes, db_vars >>

AddItemsOk(c) ==
    /\ pc = "join_populate"
    /\ tasks[c].st = "calling"
    /\ remote_playlists' = AddItems(remote_playlists, playlist_id, tasks[c].sent)
    /\ tasks' = TasksAfterOk(tasks, c)
    /\ UNCHANGED << rank_vars,
                    cmd, pc, amount, liked, fetch_vars, song_ids, api_calls,
                    playlist_id, reports, populateRes, db_vars >>

\* (mutant) the call is answered with an error after the remote applied it
AddItemsErrApplied(c) ==
    /\ pc = "join_populate"
    /\ tasks[c].st = "calling"
    /\ remote_playlists' = AddItems(remote_playlists, playlist_id, tasks[c].sent)
    /\ tasks' = TasksAfterErr(tasks, c)
    /\ UNCHANGED << rank_vars,
                    cmd, pc, amount, liked, fetch_vars, song_ids, api_calls,
                    playlist_id, reports, populateRes, db_vars >>

\* the call fails; the remote playlist is left as it was
AddItemsErr(c) ==
    /\ pc = "join_populate"
    /\ tasks[c].st = "calling"
    /\ tasks' = TasksAfterErr(tasks, c)
    /\ UNCHANGED << rank_vars,
                    cmd, pc, amount, liked, fetch_vars, song_ids, remote_playlists,
                    api_calls, playlist_id, reports, populateRes, db_vars >>

RetryWake(c) ==
    /\ pc = "join_populate"
    /\ tasks[c].st = "sleeping"
    /\ tasks' = TasksAfterSleep(tasks, c)
    /\ UNCHANGED << rank_vars,
                    cmd, pc, amount, liked, fetch_vars, song_ids, remote_playlists,
                    api_calls, playlist_id, reports, populateRes, db_vars >>

\* join_all returns, the failures are printed, populate_playlist returns and
\* main unwraps the result
PopulateJoin ==
    /\ pc = "join_populate"
    /\ AllTasksSettled
    /\ reports' = FailureReports(tasks)
    /\ populateRes' = PopulateReturn(tasks)
    /\ pc' = IF PopulateReturn(tasks) = "Ok" THEN "done" ELSE "panic"
    /\ UNCHANGED << rank_vars,
                    cmd, amount, liked, fetch_vars, song_ids, remote_playlists,
                    api_calls, playlist_id, tasks, db_vars >>

---------------------------------------------------------------------------
(* The `top` workflow *)

\* the remote library of n tracks, newest first
Library(n) == [k \in 1..n |-> [id |-> k, added_at |-> n + 1 - k]]

LibSizes == {0, batch_size + 1, MaxLib}

\* a playlist the user already has; its one item is no liked track
OldPlaylist(k, name) ==
    [id |-> k, name |-> name, items |-> << 0 >>,
     public |-> FALSE, collaborative |-> FALSE]

PlaylistSetups ==
    { << >> } \cup
    { << OldPlaylist(1, n) >> : n \in {"Top", "top"} } \cup
    { << OldPlaylist(1, n), OldPlaylist(2, m) >> : n, m \in {"Top", "top"} } \cup
    { [k \in 1..(search_limit + 1) |->
          OldPlaylist(k, IF k > search_limit THEN "Top" ELSE "top")] }

\* no update-db run has been saved since the file was last lost
NeverMerged == [saved |-> FALSE, tracks |-> << >>, rated |-> FALSE]

NoFetch == [ok |-> FALSE, err |-> 0, tracks |-> << >>]

InitTop ==
    /\ cmd = "top"
    /\ pc = "start"
    /\ amount \in 0..MaxAmount
    /\ liked \in { Library(n) : n \in LibSizes }
    /\ pages = << >>
    /\ fetchRes = NoFetch
    /\ song_ids = << >>
    /\ remote_playlists \in PlaylistSetups
    /\ api_calls = [search |-> 0, replace |-> 0, create |-> 0]
    /\ playlist_id = 0
    /\ tasks = << >>
    /\ reports = << >>
    /\ populateRes = NoValue
    /\ db = [kind |-> "absent", json |-> {}]
    /\ ratings = << >>
    /\ rate_args = [rating |-> 0, playing |-> 0]
    /\ merged_before = NeverMerged
    /\ ratings_vec = << >>
    /\ weights = << >>

FetchNext ==
    \/ GetLikedSongs
    \/ \E k \in 1..Len(pages) : PageRequest(k)
    \/ \E k \in 1..Len(pages) : PageOk(k)
    \/ \E k \in 1..Len(pages) : PageErr(k)
    \/ FetchJoin

NextTop ==
    \/ FetchNext
    \/ TopFetched
    \/ SearchOk \/ SearchErr
    \/ ReplaceOk \/ ReplaceErr
    \/ CreateOk \/ CreateErr
    \/ PopulatePlaylist
    \/ \E c \in 1..Len(tasks) : AddItemsOk(c)
    \/ \E c \in 1..Len(tasks) : AddItemsErr(c)
    \/ \E c \in 1..Len(tasks) : RetryWake(c)
    \/ PopulateJoin

Spec == InitTop /\ [][NextTop]_vars

\* the most chunks a run can have
MaxChunks == NumChunks(Min(MaxAmount, MaxLib))

\* every playlist_add_items call returns, every sleep ends, and the runtime
\* polls join_all again once its futures are ready
Fairness ==
    /\ \A c \in 1..MaxChunks :
          /\ WF_vars(c \in DOMAIN tasks /\ (AddItemsOk(c) \/ AddItemsErr(c)))
          /\ WF_vars(c \in DOMAIN tasks /\ RetryWake(c))
    /\ WF_vars(PopulateJoin)

SpecFair == Spec /\ Fairness

---------------------------------------------------------------------------
(* The rating database: load_hashmap, load_or_create_hashmap, save_hashmap *)

\* the rating given to a track that enters the database
default_rating == 3

EmptyMap == [id \in {} |-> NoValue]

\* TimeRating::new(added_at, rating)
TimeRating(added_at, rating) == [added_at |-> added_at, rating |-> rating]

\* serde_json::to_string(hashmap): a JSON object, one member per key
Serialize(map) ==
    [kind |-> "json",
     json |-> { << id, map[id].added_at, map[id].rating >> : id \in DOMAIN map }]

\* serde_json::from_str of such an object
Deserialize(text) ==
    [id \in { m[1] : m \in text.json } |->
        LET m == CHOOSE m \in text.json : m[1] = id
        IN  TimeRating(m[2], m[3])]

\* the file at db_path: no file, a file that cannot be read, bytes that are no
\* JSON map (a truncated file among them), or a serialized map
BadFile(kind) == [kind |-> kind, json |-> {}]

BadFiles == { BadFile(k) : k \in {"absent", "unreadable", "malformed"} }

load_hashmap(file) ==
    CASE file.kind = "absent" ->
             [ok |-> FALSE, err |-> "NotFound", map |-> EmptyMap]
      [] file.kind = "unreadable" ->
             [ok |-> FALSE, err |-> "IOError", map |-> EmptyMap]
      [] file.kind = "malformed" ->
             [ok |-> FALSE, err |-> "ParseError", map |-> EmptyMap]
      [] OTHER ->
             [ok |-> TRUE, err |-> NoValue, map |-> Deserialize(file)]

\* load_hashmap(file_path).map_or(Ok(HashMap::new()), Ok)
load_or_create_hashmap(file) ==
    LET r == load_hashmap(file)
    IN  IF r.ok THEN r ELSE [ok |-> TRUE, err |-> NoValue, map |-> EmptyMap]

\* (mutant) insert: the entry is written whether the key is there or not
OrInsertOverwrite(map, track) ==
    (track.id :> TimeRating(track.added_at, default_rating)) @@ map

\* (mutant) a key that is there keeps its added_at and gets the default rating
OrInsertResetRating(map, track) ==
    IF track.id \in DOMAIN map
    THEN [map EXCEPT ![track.id].rating = default_rating]
    ELSE (track.id :> TimeRating(track.added_at, default_rating)) @@ map

\* ratings.entry(id).or_insert(TimeRating::new(added_at, 3.))
OrInsert(map, track) ==
    IF track.id \in DOMAIN map
    THEN map
    ELSE (track.id :> TimeRating(track.added_at, default_rating)) @@ map

RECURSIVE MergeUpTo(_, _, _)
\* the map after the for loop has taken the first k tracks
MergeUpTo(map, tracks, k) ==
    IF k = 0 THEN map ELSE OrInsert(MergeUpTo(map, tracks, k - 1), tracks[k])

\* the for loop of update-db over liked_songs_to_limit
MergeNew(map, tracks) == MergeUpTo(map, tracks, Len(tracks))

\* (mutant) the entry is replaced by a new TimeRating, its added_at is lost
SetRatingNewEntry(map, id, rating) == [map EXCEPT ![id] = TimeRating(0, rating)]

\* ratings.get_mut(id).unwrap().rating = rating
SetRating(map, id, rating) == [map EXCEPT ![id].rating = rating]

---------------------------------------------------------------------------
(* update-db *)

\* main, update-db: get_liked_songs(..).await.unwrap(), then
\* load_or_create_hashmap(db_path)?
DbFetched ==
    /\ cmd = "update-db"
    /\ pc = "fetched"
    /\ IF ~fetchRes.ok
       THEN pc' = "panic" /\ UNCHANGED ratings
       ELSE LET r == load_or_create_hashmap(db)
            IN  IF r.ok
                THEN ratings' = r.map /\ pc' = "loaded"
                ELSE pc' = "error" /\ UNCHANGED ratings
    /\ UNCHANGED << rank_vars,
                    cmd, amount, liked, fetch_vars, top_vars, db, rate_args,
                    merged_before >>

DbMerge ==
    /\ cmd = "update-db"
    /\ pc = "loaded"
    /\ ratings' = MergeNew(ratings, fetchRes.tracks)
    /\ pc' = "merged"
    /\ UNCHANGED << rank_vars,
                    cmd, amount, liked, fetch_vars, top_vars, db, rate_args,
                    merged_before >>

\* save_hashmap(db_path, &ratings)? succeeds: the file holds the serialized map
SaveOk ==
    /\ pc \in {"merged", "rated"}
    /\ db' = Serialize(ratings)
    /\ merged_before' = IF cmd = "update-db"
                        THEN [saved |-> TRUE, tracks |-> fetchRes.tracks,
                              rated |-> FALSE]
                        ELSE [merged_before EXCEPT !.rated = merged_before.saved]
    /\ pc' = "done"
    /\ UNCHANGED << rank_vars,
                    cmd, amount, liked, fetch_vars, top_vars, ratings, rate_args >>

\* save_hashmap fails: before the file is touched (to_string, create_dir_all,
\* File::create), or in write_all, after File::create has truncated the file
SaveErr ==
    /\ pc \in {"merged", "rated"}
    /\ \E truncated \in BOOLEAN :
          /\ db' = IF truncated THEN BadFile("malformed") ELSE db
          /\ merged_before' = IF truncated
                              THEN NeverMerged
                              ELSE merged_before
    /\ pc' = "error"
    /\ UNCHANGED << rank_vars,
                    cmd, amount, liked, fetch_vars, top_vars, ratings, rate_args >>

---------------------------------------------------------------------------
(* rate *)

\* current_user_playing_item().await? fails: main returns the error
RatePlayingErr ==
    /\ cmd = "rate"
    /\ pc = "start"
    /\ pc' = "error"
    /\ UNCHANGED << rank_vars,
                    cmd, amount, liked, fetch_vars, top_vars, db_vars >>

\* nothing is playing: "No currently playing song", return Ok(())
RatePlayingNone ==
    /\ cmd = "rate"
    /\ pc = "start"
    /\ pc' = "done"
    /\ UNCHANGED << rank_vars,
                    cmd, amount, liked, fetch_vars, top_vars, db_vars >>

RatePlayingSome(id) ==
    /\ cmd = "rate"
    /\ pc = "start"
    /\ rate_args' = [rate_args EXCEPT !.playing = id]
    /\ pc' = "confirm"
    /\ UNCHANGED << rank_vars,
                    cmd, amount, liked, fetch_vars, top_vars, db, ratings,
                    merged_before >>

\* --ask and the line read is none of y, Y, yes, Yes: return Ok(())
RateDeclined ==
    /\ pc = "confirm"
    /\ pc' = "done"
    /\ UNCHANGED << rank_vars,
                    cmd, amount, liked, fetch_vars, top_vars, db_vars >>

\* no --ask, or the answer is accepted
RateConfirmed ==
    /\ pc = "confirm"
    /\ pc' = "rate_load"
    /\ UNCHANGED << rank_vars,
                    cmd, amount, liked, fetch_vars, top_vars, db_vars >>

\* load_hashmap, the lookup of the playing song, and the change of its rating
RateApply ==
    /\ pc = "rate_load"
    /\ LET r == load_hashmap(db)
       IN  IF ~r.ok
           THEN pc' = "done" /\ UNCHANGED ratings
           ELSE IF rate_args.playing \notin DOMAIN r.map
                THEN pc' = "done" /\ ratings' = r.map
                ELSE /\ ratings' = SetRating(r.map, rate_args.playing, rate_args.rating)
                     /\ pc' = "rated"
    /\ UNCHANGED << rank_vars,
                    cmd, amount, liked, fetch_vars, top_vars, db, rate_args,
                    merged_before >>

---------------------------------------------------------------------------
(* The database workflows: update-db and rate, run one after the other *)

\* largest LIMIT of an update-db run
MaxLimit == 2
\* largest remote library of the database workflows
MaxLikedDb == 2

DbIds == {1, 2}
AddedAts == {1, 2}
\* RATING: "great" | "1" => 1., "bad" | "4" => 4.
RateInputs == {1, 4}
StoreRatings == RateInputs \cup {default_rating}

DbTracks == { [id |-> i, added_at |-> t] : i \in DbIds, t \in AddedAts }

SeqsUpTo(S, n) == UNION { [1..m -> S] : m \in 0..n }

Stores ==
    UNION { [S -> { TimeRating(t, r) : t \in AddedAts, r \in StoreRatings }] :
            S \in SUBSET DbIds }

Invocations ==
    { [cmd |-> "update-db", amount |-> n, rating |-> 0] : n \in 0..MaxLimit } \cup
    { [cmd |-> "rate", amount |-> 0, rating |-> r] : r \in RateInputs }

InitDb ==
    /\ \E inv \in Invocations :
          /\ cmd = inv.cmd
          /\ amount = inv.amount
          /\ rate_args = [rating |-> inv.rating, playing |-> 0]
    /\ pc = "start"
    /\ liked \in SeqsUpTo(DbTracks, MaxLikedDb)
    /\ pages = << >>
    /\ fetchRes = NoFetch
    /\ song_ids = << >>
    /\ remote_playlists = << >>
    /\ api_calls = [search |-> 0, replace |-> 0, create |-> 0]
    /\ playlist_id = 0
    /\ tasks = << >>
    /\ reports = << >>
    /\ populateRes = NoValue
    /\ db \in BadFiles \cup { Serialize(s) : s \in Stores }
    /\ ratings = << >>
    /\ merged_before = NeverMerged
    /\ ratings_vec = << >>
    /\ weights = << >>

\* the process has ended; the program is run again over the same db file
Invoke ==
    /\ cmd \in {"update-db", "rate"}
    /\ pc \in {"done", "panic", "error"}
    /\ \E inv \in Invocations :
          /\ cmd' = inv.cmd
          /\ amount' = inv.amount
          /\ rate_args' = [rating |-> inv.rating, playing |-> 0]
    /\ pc' = "start"
    /\ pages' = << >>
    /\ fetchRes' = NoFetch
    /\ ratings' = << >>
    /\ UNCHANGED << rank_vars, liked, top_vars, db, merged_before >>

NextDb ==
    \/ FetchNext
    \/ DbFetched
    \/ DbMerge
    \/ SaveOk
    \/ SaveErr
    \/ RatePlayingErr
    \/ RatePlayingNone
    \/ \E id \in DbIds : RatePlayingSome(id)
    \/ RateDeclined
    \/ RateConfirmed
    \/ RateApply
    \/ Invoke

SpecDb == InitDb /\ [][NextDb]_vars

---------------------------------------------------------------------------
(* every command of the remote side: a top run, or runs over the db file *)

InitAll == InitTop \/ InitDb

NextAll == NextTop \/ NextDb

SpecAll == InitAll /\ [][NextAll]_vars

---------------------------------------------------------------------------
(* weights *)

\* the largest number of entries of a database
MaxEntries == 2001
\* maps of up to this many entries are collected in every possible order,
\* larger ones from the last key to the first
MaxPermLen == 3

\* ratings.into_iter(): a HashMap yields its entries in an arbitrary order
Perms(S) ==
    { f \in [1..Cardinality(S) -> S] :
        \A i, j \in 1..Cardinality(S) : f[i] = f[j] => i = j }

IterOrders(map) ==
    LET n == Cardinality(DOMAIN map)
    IN  IF n <= MaxPermLen
        THEN Perms(DOMAIN map)
        ELSE { [k \in 1..n |-> n + 1 - k] }

\* .collect(): the vector of (song_id, TimeRating) in iteration order
CollectVec(map, order) ==
    [k \in 1..Len(order) |->
        [id |-> order[k], added_at |-> map[order[k]].added_at,
         rating |-> map[order[k]].rating]]

\* |a, b| b.1.added_at.cmp(&a.1.added_at) is Less
ByAddedAtDesc(a, b) == b.added_at < a.added_at

\* |a, b| a.1.rating.partial_cmp(&b.1.rating) is Less
ByRatingAsc(a, b) == a.rating < b.rating

\* the closure handed to sort_by says Less
Less(by, a, b) ==
    IF by = "added_at" THEN ByAddedAtDesc(a, b) ELSE ByRatingAsc(a, b)

\* slice::sort_by, a stable sort: an element goes behind those that compare
\* less and behind the equal ones that stood before it
SortBy(vec, by) ==
    LET n == Len(vec)
        pos == [k \in 1..n |->
                  Cardinality({ j \in 1..n :
                      \/ Less(by, vec[j], vec[k])
                      \/ j < k /\ ~Less(by, vec[k], vec[j]) }) + 1] \o << >>
    IN  [q \in 1..n |-> vec[CHOOSE k \in 1..n : pos[k] = q]] \o << >>

\* (mutant) only the rating is sorted on
SortVecRatingOnly(vec) == SortBy(vec, "rating")

\* the two sort_by calls
SortVec(vec) == SortBy(SortBy(vec, "added_at"), "rating")

\* 10.0 / ratings_len as f64: the quotient of two floats, +inf for a
\* ratings_len of 0
Step(ratings_len) == [num |-> 10, den |-> ratings_len]

\* which way format!'s rounding goes when the exact weight lies on a decimal
\* tie: the f64 computed for it lies just below or just above
TieModes == {"down", "up"}

\* (mutant) two digits are cut off, not rounded to
FormatWeightTrunc(step, i, tie) == (1000 * (step.den - i)) \div step.den

\* format!("{:.2}", 9.0 - (step * i as f64) + 1.0), in hundredths: the
\* weight 10 - (10/n) * i rounded to the nearest hundredth
FormatWeight(step, i, tie) ==
    LET x == 1000 * (step.den - i)
        q == x \div step.den
        r == x % step.den
    IN  IF 2 * r < step.den \/ (2 * r = step.den /\ tie = "down")
        THEN q ELSE q + 1

Entry(id, weight) == [kind |-> "entry", id |-> id, weight |-> weight]
Delimiter == [kind |-> "|", id |-> 0, weight |-> 0]

\* .collect::<Vec<String>>().join("|")
Join(entries) ==
    [k \in 1..(IF Len(entries) = 0 THEN 0 ELSE 2 * Len(entries) - 1) |->
        IF k % 2 = 1 THEN entries[(k + 1) \div 2] ELSE Delimiter]

\* the feed of a sorted vector
WeightsOf(vec, tie) ==
    LET step == Step(Len(vec))
    IN  Join([k \in 1..Len(vec) |->
                 Entry(vec[k].id, FormatWeight(step, k - 1, tie))])

\* load_hashmap fails: the error is printed and main returns Ok(())
WeightsLoadErr ==
    /\ cmd = "weights"
    /\ pc = "start"
    /\ ~load_hashmap(db).ok
    /\ pc' = "done"
    /\ UNCHANGED << rank_vars, amount, cmd, liked, fetch_vars, top_vars,
                    db_vars >>

\* load_hashmap succeeds and the map is collected into ratings_vec
WeightsLoad ==
    /\ cmd = "weights"
    /\ pc = "start"
    /\ load_hashmap(db).ok
    /\ ratings' = load_hashmap(db).map
    /\ \E order \in IterOrders(ratings') :
          ratings_vec' = CollectVec(ratings', order)
    /\ pc' = "collected"
    /\ UNCHANGED << weights, amount, cmd, liked, fetch_vars, top_vars, db,
                    rate_args, merged_before >>

WeightsSort ==
    /\ cmd = "weights"
    /\ pc = "collected"
    /\ ratings_vec' = SortVec(ratings_vec)
    /\ pc' = "sorted"
    /\ UNCHANGED << weights, amount, cmd, liked, fetch_vars, top_vars,
                    db_vars >>

\* (mutant) the step is an integer quotient, which panics on a divisor of 0
CreateWeightsIntDiv ==
    /\ cmd = "weights"
    /\ pc = "sorted"
    /\ IF Len(ratings_vec) = 0
       THEN pc' = "panic" /\ UNCHANGED weights
       ELSE /\ \E tie \in TieModes : weights' = WeightsOf(ratings_vec, tie)
            /\ pc' = "egress"
    /\ UNCHANGED << ratings_vec, amount, cmd, liked, fetch_vars, top_vars,
                    db_vars >>

CreateWeights ==
    /\ cmd = "weights"
    /\ pc = "sorted"
    /\ \E tie \in TieModes : weights' = WeightsOf(ratings_vec, tie)
    /\ pc' = "egress"
    /\ UNCHANGED << ratings_vec, amount, cmd, liked, fetch_vars, top_vars,
                    db_vars >>

\* the feed is written to PATH or copied to the clipboard
EgressOk ==
    /\ cmd = "weights"
    /\ pc = "egress"
    /\ pc' = "done"
    /\ UNCHANGED << rank_vars, amount, cmd, liked, fetch_vars, top_vars,
                    db_vars >>

\* File::create, write_all or the clipboard fails: main returns the error
EgressErr ==
    /\ cmd = "weights"
    /\ pc = "egress"
    /\ pc' = "error"
    /\ UNCHANGED << rank_vars, amount, cmd, liked, fetch_vars, top_vars,
                    db_vars >>

RankIds == {1, 2, 3}
RankAddedAts == {1, 2, 3}
RankRatings == {2, 4}

\* every map over a few ids, and maps as an update-db run over a long list of
\* liked songs leaves them after each song was given a rating of its own
SmallStores ==
    UNION { [S -> { TimeRating(t, r) : t \in RankAddedAts, r \in RankRatings }] :
              S \in SUBSET RankIds }

LargeStore(n) == [k \in 1..n |-> TimeRating(k, k)]

\* sizes on both sides of the 1000 two-digit weights there are in (0, 10]
LargeSizes == {1000, 1001, MaxEntries}

InitRank ==
    /\ cmd = "weights"
    /\ pc = "start"
    /\ amount = 0
    /\ liked = << >>
    /\ pages = << >>
    /\ fetchRes = NoFetch
    /\ song_ids = << >>
    /\ remote_playlists = << >>
    /\ api_calls = [search |-> 0, replace |-> 0, create |-> 0]
    /\ playlist_id = 0
    /\ tasks = << >>
    /\ reports = << >>
    /\ populateRes = NoValue
    /\ db \in BadFiles \cup { Serialize(s) : s \in SmallStores }
                       \cup { Serialize(LargeStore(n)) : n \in LargeSizes }
    /\ ratings = << >>
    /\ rate_args = [rating |-> 0, playing |-> 0]
    /\ merged_before = NeverMerged
    /\ ratings_vec = << >>
    /\ weights = << >>

NextRank ==
    \/ WeightsLoadErr
    \/ WeightsLoad
    \/ WeightsSort
    \/ CreateWeights
    \/ EgressOk
    \/ EgressErr

SpecRank == InitRank /\ [][NextRank]_vars

---------------------------------------------------------------------------
(* Properties of populate_playlist, checked under Spec *)

Both(f, g) == DOMAIN f \cap DOMAIN g

AllErr(log) == \A i \in 1..Len(log) : log[i] = "err"

\* the items of the playlist that empty_playlist returned
TargetItems ==
    IF \E k \in 1..Len(remote_playlists) : remote_playlists[k].id = playlist_id
    THEN remote_playlists[CHOOSE k \in 1..Len(remote_playlists) :
                             remote_playlists[k].id = playlist_id].items
    ELSE << >>

RetryState(t) ==
    /\ t.calls <= 4
    /\ Len(t.log) <= t.calls
    /\ t.calls <= Len(t.log) + 1
    /\ \A i \in 1..Len(t.log) :
          t.log[i] = "ok" => (i = Len(t.log) /\ t.calls = i /\ t.st = "ok")
    /\ (t.st = "ok") <=> (\E i \in 1..Len(t.log) : i <= 4 /\ t.log[i] = "ok")
    /\ (t.st = "failed") <=> (Len(t.log) = 4 /\ AllErr(t.log))

RetryStep(t, u) ==
    u.calls > t.calls =>
        /\ u.calls = t.calls + 1
        /\ t.st = "sleeping"
        /\ Len(t.log) = t.calls
        /\ AllErr(t.log)

\* C1: a chunk's add-items call is attempted at most 4 times; a further
\* attempt is made only by a task that sleeps after a failed attempt, when its
\* delay is over; no attempt follows a successful one; the chunk ends
\* successful iff one of its (at most 4) attempts succeeded, and failed iff
\* all 4 failed.
C1_BoundedRetry ==
    /\ [](\A c \in 1..Len(tasks) : RetryState(tasks[c]))
    /\ [][\A c \in Both(tasks, tasks') : RetryStep(tasks[c], tasks'[c])]_vars

C1_Witness ==
    /\ pc = "done"
    /\ Len(tasks) = 2
    /\ tasks[1].log = << "err", "err", "ok" >>
    /\ tasks[1].st = "ok"
    /\ tasks[2].log = << "err", "err", "err", "err" >>
    /\ tasks[2].st = "failed"

Exhausted == { c \in 1..Len(tasks) : Len(tasks[c].log) = 4 /\ AllErr(tasks[c].log) }

\* C2: populate_playlist never aborts on a chunk failure: once it has been
\* entered main does not end in a panic, it returns Ok whatever the chunks'
\* outcomes are, and the failures it reports are exactly the chunks that
\* exhausted their retries, one report each.
C2_NeverAborts ==
    /\ populateRes \in {NoValue, "Ok"}
    /\ (pc = "panic" => tasks = << >> /\ populateRes = NoValue)
    /\ (populateRes = NoValue => reports = << >>)
    /\ (pc = "done" =>
           /\ populateRes = "Ok"
           /\ { reports[i] : i \in 1..Len(reports) } = Exhausted
           /\ Len(reports) = Cardinality(Exhausted))

C2_Witness ==
    /\ pc = "done"
    /\ populateRes = "Ok"
    /\ Len(tasks) = 2
    /\ tasks[1].st = "ok"
    /\ reports = << 2 >>

OkTasks == { c \in 1..Len(tasks) : tasks[c].st = "ok" }

\* every chunk that succeeded is in the playlist, and nothing else is
AppliedChunks ==
    pc \in {"join_populate", "done"} =>
        /\ { TargetItems[i] : i \in 1..Len(TargetItems) } =
               UNION { { tasks[c].chunk[i] : i \in 1..Len(tasks[c].chunk) } :
                       c \in OkTasks }
        /\ \A c \in OkTasks :
              \E at \in 0..Len(TargetItems) :
                 SubSeq(TargetItems, at + 1, at + Len(tasks[c].chunk)) = tasks[c].chunk

\* C3: the chunk tasks are independent: a step changes one task only, so a
\* chunk that fails an attempt or gives up leaves every sibling as it was
\* (not cancelled, same attempts), and every chunk whose attempt succeeded is
\* in the playlist whatever its siblings did.
C3_Independent ==
    /\ [][\A c \in Both(tasks, tasks') :
             tasks'[c] # tasks[c] =>
                 \A d \in Both(tasks, tasks') \ {c} : tasks'[d] = tasks[d]]_vars
    /\ []AppliedChunks

C3_Witness ==
    /\ Len(tasks) = 2
    /\ tasks[1].st = "failed"
    /\ tasks[2].st = "ok"
    /\ tasks[2].log = << "err", "ok" >>
    /\ TargetItems = tasks[2].chunk

---------------------------------------------------------------------------
(* Properties of get_liked_songs, checked under Spec *)

Returned == pc \notin {"start", "join_fetch"}

\* C4: get_liked_songs is fail-fast and does not retry: every page is
\* requested once; if a page failed the result is the error of the failed
\* page that comes first in page order, with no track of the pages that
\* succeeded; tracks are returned only if every page succeeded.
C4_FailFast ==
    /\ \A k \in 1..Len(pages) : pages[k].requests <= 1
    /\ Returned =>
          /\ \A k \in 1..Len(pages) : pages[k].requests = 1
          /\ fetchRes.ok <=> (\A k \in 1..Len(pages) : pages[k].st = "ok")
          /\ ~fetchRes.ok =>
                /\ fetchRes.tracks = << >>
                /\ fetchRes.err \in 1..Len(pages)
                /\ pages[fetchRes.err].st = "err"
                /\ \A j \in 1..(fetchRes.err - 1) : pages[j].st = "ok"

C4_Witness ==
    /\ pc = "fetched"
    /\ Len(pages) = 3
    /\ pages[1].st = "ok"
    /\ pages[2].st = "err"
    /\ pages[3].st = "err"
    /\ fetchRes.err = 2
    /\ fetchRes.tracks = << >>

\* C5: fan-out / fan-in: no page task has run before all of them are spawned
\* and no chunk task before all of them exist; get_liked_songs has returned
\* (Ok or Err) only with every page task settled, populate_playlist only with
\* every chunk task settled.
C5_FanOutFanIn ==
    /\ pc # "start" => Len(pages) * 50 >= amount
    /\ Returned => \A k \in 1..Len(pages) : pages[k].st \in {"ok", "err"}
    /\ pc \in {"join_populate", "done"} => Len(tasks) * 100 >= Len(song_ids)
    /\ (pc = "done" \/ populateRes # NoValue) =>
          \A c \in 1..Len(tasks) : tasks[c].st \in {"ok", "failed"}

C5_Witness ==
    /\ pc = "done"
    /\ Len(pages) = 3
    /\ Len(tasks) = 2
    /\ tasks[1].st = "failed"
    /\ tasks[2].st = "ok"

RECURSIVE SumLimits(_, _)
SumLimits(ps, k) == IF k = 0 THEN 0 ELSE SumLimits(ps, k - 1) + ps[k].limit

\* C6: get_liked_songs(total) issues ceil(total / 50) page requests; page i
\* (0-based) has offset 50 * i and limit 50, but the last page has limit
\* total mod 50 when that is not 0; the limits sum to total and each is in
\* 1..50.
C6_Paging ==
    pc # "start" =>
        LET np == Len(pages)
        IN  /\ np * 50 >= amount
            /\ (np - 1) * 50 < amount \/ np = 0
            /\ \A k \in 1..np :
                  /\ pages[k].offset = 50 * (k - 1)
                  /\ pages[k].limit =
                         IF k = np /\ amount % 50 # 0 THEN amount % 50 ELSE 50
                  /\ pages[k].limit \in 1..50
            /\ SumLimits(pages, np) = amount

C6_Witness ==
    /\ pc = "join_fetch"
    /\ amount = 120
    /\ Len(pages) = 3
    /\ \A k \in 1..3 : pages[k].st = "inflight"
    /\ << pages[1].offset, pages[2].offset, pages[3].offset >> = << 0, 50, 100 >>
    /\ << pages[1].limit, pages[2].limit, pages[3].limit >> = << 50, 50, 20 >>

\* C7: when get_liked_songs succeeds its result is the page results in
\* ascending offset order, each page in the remote's order: the first tracks
\* of the remote library, in the library's order, whatever the order in which
\* the page requests were answered.
C7_PageOrder ==
    (Returned /\ fetchRes.ok) =>
        fetchRes.tracks = SubSeq(liked, 1, Min(amount, Len(liked)))

C7_Witness ==
    /\ pc = "search"
    /\ fetchRes.ok
    /\ amount = 120
    /\ Len(pages) = 3
    /\ Len(fetchRes.tracks) = 102
    /\ fetchRes.tracks[51].id = 51
    /\ song_ids[102] = 102

---------------------------------------------------------------------------
(* Properties of the rating database, checked under SpecDb *)

\* C8: load_or_create_hashmap gives an empty map only when the file is
\* absent; on any other load error update-db gets the error and neither
\* merges nor saves.
C8_OtherErrorsPropagate ==
    (cmd = "update-db" /\ pc \in {"loaded", "merged"}) =>
        /\ db.kind \in {"absent", "json"}
        /\ (pc = "loaded" /\ db.kind = "absent") => ratings = EmptyMap

Ids(tracks) == { tracks[k].id : k \in 1..Len(tracks) }

First(tracks, id) == CHOOSE k \in 1..Len(tracks) :
                        /\ tracks[k].id = id
                        /\ \A j \in 1..(k - 1) : tracks[j].id # id

InsertIfAbsent(old, new, tracks) ==
    /\ \A id \in DOMAIN old : id \in DOMAIN new /\ new[id] = old[id]
    /\ \A id \in Ids(tracks) \ DOMAIN old :
          /\ id \in DOMAIN new
          /\ new[id].rating = 3
          /\ new[id].added_at = tracks[First(tracks, id)].added_at
    /\ DOMAIN new = DOMAIN old \cup Ids(tracks)

\* C9: the merge loop of update-db is insert-if-absent: every id of the map
\* before it keeps its added_at and rating; every fetched id that was absent
\* is in the map with rating 3.0 and the added_at of its first occurrence
\* among the fetched tracks; no other id is in the map.
C9_InsertIfAbsent ==
    [][(pc = "loaded" /\ pc' = "merged") =>
           InsertIfAbsent(ratings, ratings', fetchRes.tracks)]_vars

C9_Witness ==
    /\ cmd = "update-db"
    /\ pc = "merged"
    /\ db.kind = "json"
    /\ DOMAIN Deserialize(db) = {2}
    /\ Len(fetchRes.tracks) = 2
    /\ fetchRes.tracks[1].id = 1
    /\ fetchRes.tracks[2].id = 1
    /\ fetchRes.tracks[1].added_at = 2
    /\ fetchRes.tracks[2].added_at = 1
    /\ ratings[1] = TimeRating(2, 3)
    /\ ratings[2].rating = 4

\* C10: the merge is idempotent: a second update-db run that fetches the same
\* tracks as the last saved one leaves the map as it was loaded, also when
\* rate changed a rating in between (it is not set back to 3.0).
C10_Idempotent ==
    (cmd = "update-db" /\ pc = "merged" /\ merged_before.saved
        /\ merged_before.tracks = fetchRes.tracks) =>
        /\ db.kind = "json"
        /\ ratings = Deserialize(db)

C10_Witness ==
    /\ cmd = "update-db"
    /\ pc = "merged"
    /\ merged_before.saved
    /\ merged_before.rated
    /\ merged_before.tracks = fetchRes.tracks
    /\ Len(fetchRes.tracks) = 2
    /\ ratings[fetchRes.tracks[1].id].rating = 4

\* the map in the file, if the file holds one
Stored(file) == IF file.kind = "json" THEN Deserialize(file) ELSE EmptyMap

OnlyRatingOf(old, new, id, rating) ==
    /\ DOMAIN new = DOMAIN old
    /\ new[id] = [added_at |-> old[id].added_at, rating |-> rating]
    /\ \A other \in DOMAIN old \ {id} : new[other] = old[other]

\* C11: rate: if the playing id is not in the loaded map (or the file cannot
\* be loaded) the run ends with the file as it was and no save; if it is,
\* only that entry's rating is overwritten (same added_at, every other entry
\* the same, same keys) and the next step is the save, which writes that map.
\* No other step of a rate run changes the file.
C11_RateFrame ==
    [][cmd = "rate" =>
          /\ pc = "rate_load" =>
                IF db.kind = "json" /\ rate_args.playing \in DOMAIN Stored(db)
                THEN /\ pc' = "rated"
                     /\ db' = db
                     /\ OnlyRatingOf(Stored(db), ratings', rate_args.playing,
                                     rate_args.rating)
                ELSE pc' = "done" /\ db' = db
          /\ pc = "rated" =>
                /\ pc' \in {"done", "error"}
                /\ pc' = "done" => (db'.kind = "json" /\ Stored(db') = ratings)
          /\ pc # "rated" => db' = db]_vars

C11_Witness ==
    /\ cmd = "rate"
    /\ pc = "done"
    /\ rate_args = [rating |-> 4, playing |-> 1]
    /\ db.kind = "json"
    /\ Stored(db) = ratings
    /\ DOMAIN ratings = {1, 2}
    /\ ratings[1] = TimeRating(2, 4)
    /\ ratings[2] = TimeRating(1, 1)

EmptyPlaylistOk == cmd = "top" /\ pc \in {"populate", "join_populate", "done"}

\* the playlists that existed before the run: create appends one
Existing ==
    IF EmptyPlaylistOk /\ api_calls.create = 1
    THEN SubSeq(remote_playlists, 1, Len(remote_playlists) - 1)
    ELSE remote_playlists

\* the searched playlists with exactly the requested name
Hits == { k \in 1..Len(Existing) :
            k <= search_limit /\ Existing[k].name = playlist_name }

\* C12: empty_playlist searches once. If one of the first 50 playlists has
\* exactly the requested name, one replace-with-empty call is made on the
\* first such playlist, no create call, and its id is returned; otherwise
\* one create call (not public, not collaborative), no replace call, and the
\* new id is returned. A failing search, replace or create ends the
\* operation with the error (nothing is populated), and on success the
\* returned playlist has no items.
C12_EmptyPlaylist ==
    cmd = "top" =>
      /\ api_calls.search <= 1
      /\ api_calls.replace + api_calls.create <= 1
      /\ api_calls.replace + api_calls.create = 1 => api_calls.search = 1
      /\ Hits # {} => api_calls.create = 0
      /\ Hits = {} => api_calls.replace = 0
      /\ EmptyPlaylistOk =>
           /\ api_calls.search = 1
           /\ IF Hits # {}
              THEN /\ api_calls.replace = 1
                   /\ \E k \in Hits :
                         /\ \A j \in Hits : k <= j
                         /\ playlist_id = Existing[k].id
              ELSE /\ api_calls.create = 1
                   /\ LET new == remote_playlists[Len(remote_playlists)]
                      IN  /\ playlist_id = new.id
                          /\ new.name = playlist_name
                          /\ ~new.public
                          /\ ~new.collaborative
                          /\ \A k \in 1..Len(Existing) : Existing[k].id # new.id
      /\ pc = "populate" => TargetItems = << >>
      /\ (pc = "panic" /\ fetchRes.ok) =>
           /\ api_calls.search + api_calls.replace + api_calls.create >= 1
           /\ playlist_id = 0 \/ api_calls.replace = 1
           /\ tasks = << >>
           /\ populateRes = NoValue
           /\ \A k \in 1..Len(remote_playlists) :
                 remote_playlists[k].items = << 0 >>

C12_Witness ==
    /\ pc = "populate"
    /\ Len(remote_playlists) = 2
    /\ remote_playlists[1].name = "top"
    /\ remote_playlists[1].items = << 0 >>
    /\ remote_playlists[2].name = "Top"
    /\ remote_playlists[2].items = << >>
    /\ playlist_id = 2
    /\ api_calls = [search |-> 1, replace |-> 1, create |-> 0]

RECURSIVE ChunksUpTo(_, _)
ChunksUpTo(ts, k) == IF k = 0 THEN << >> ELSE ChunksUpTo(ts, k - 1) \o ts[k].chunk

Populating == cmd = "top" /\ pc \in {"join_populate", "done"}

\* C13: populate splits the ids into ceil(len/100) chunks, each non-empty
\* and of at most 100 ids; the chunks concatenated in submission order are
\* the input sequence; and every add-items call of a task, retries included,
\* carries exactly that task's chunk, in order.
C13_Chunking ==
    Populating =>
      /\ populate_batch_size * (Len(tasks) - 1) < Len(song_ids)
      /\ Len(song_ids) <= populate_batch_size * Len(tasks)
      /\ \A c \in 1..Len(tasks) :
            /\ Len(tasks[c].chunk) >= 1
            /\ Len(tasks[c].chunk) <= populate_batch_size
            /\ tasks[c].calls >= 1
            /\ tasks[c].sent = tasks[c].chunk
      /\ ChunksUpTo(tasks, Len(tasks)) = song_ids

C13_Witness ==
    /\ pc = "join_populate"
    /\ Len(song_ids) = populate_batch_size + 2
    /\ Len(tasks) = 2
    /\ Len(tasks[1].chunk) = populate_batch_size
    /\ tasks[2].chunk = << populate_batch_size + 1, populate_batch_size + 2 >>
    /\ tasks[2].st = "calling"
    /\ tasks[2].calls = 3
    /\ tasks[2].sent = tasks[2].chunk

\* the chunk lies in the playlist as one block, in its own order
Contiguous(chunk, items) ==
    \E start \in 1..(Len(items) - Len(chunk) + 1) :
        /\ items[start] = chunk[1]
        /\ \A j \in 1..Len(chunk) : items[start + j - 1] = chunk[j]

RECURSIVE OkLen(_, _)
OkLen(ts, k) ==
    IF k = 0 THEN 0
    ELSE OkLen(ts, k - 1) + (IF ts[k].st = "ok" THEN Len(ts[k].chunk) ELSE 0)

\* C14: in every interleaving, the ids of a chunk whose add-items call
\* succeeded lie in the playlist contiguously and in chunk order, and the
\* playlist holds nothing besides these blocks. The order of the
\* blocks is not fixed: C14_Witness is a final state where the second chunk
\* precedes the first.
C14_ChunkBlocks ==
    Populating =>
      /\ \A c \in 1..Len(tasks) :
            tasks[c].st = "ok" => Contiguous(tasks[c].chunk, TargetItems)
      /\ Len(TargetItems) = OkLen(tasks, Len(tasks))

C14_Witness ==
    /\ pc = "done"
    /\ Len(tasks) = 2
    /\ Len(tasks[1].chunk) = populate_batch_size
    /\ Len(tasks[2].chunk) = 2
    /\ TargetItems = tasks[2].chunk \o tasks[1].chunk

\* C15: a failed fetch ends the command before any downstream effect. top:
\* while fetch has not returned success there is no search, replace, create
\* or add-items call and the remote playlists stay as they are, and no
\* add-items call is made before empty_playlist has returned success.
\* update-db: while fetch has not returned success the file is not loaded,
\* no map is built or changed and the file is not written.
C15_FetchGate ==
    [][/\ (cmd = "top" /\ ~fetchRes.ok) =>
             /\ UNCHANGED << remote_playlists, api_calls, playlist_id, tasks >>
             /\ pc' \in {"start", "join_fetch", "fetched", "panic"}
       /\ (cmd = "top" /\ ~EmptyPlaylistOk) =>
             /\ tasks' = tasks
             /\ tasks = << >>
             /\ remote_playlists' # remote_playlists => pc \in {"replace", "create"}
       /\ (cmd = "update-db" /\ ~fetchRes.ok) =>
             /\ db' = db
             /\ ratings' = ratings
             /\ ratings = << >>
             /\ pc' \in {"start", "join_fetch", "fetched", "panic"}]_vars

C15_Witness ==
    /\ cmd = "top"
    /\ pc = "panic"
    /\ ~fetchRes.ok
    /\ \E k \in 1..Len(pages) : pages[k].st = "ok" /\ pages[k].items # << >>
    /\ api_calls = [search |-> 0, replace |-> 0, create |-> 0]
    /\ Len(remote_playlists) = 1
    /\ remote_playlists[1] = OldPlaylist(1, playlist_name)
    /\ tasks = << >>

\* the feed has been created and is handed to the egress
Ranked == cmd = "weights" /\ pc = "egress"

\* the entries of the feed, without the delimiters
Output ==
    [k \in 1..((Len(weights) + 1) \div 2) |-> weights[2 * k - 1]] \o << >>

\* C16: the output is ordered by rating ascending and, among equal ratings,
\* by later added_at first: for all positions i < j, rating(i) < rating(j),
\* or rating(i) = rating(j) and added_at(i) >= added_at(j). Every id of the
\* store is in the output exactly once.
C16_RankOrder ==
    Ranked =>
      LET out == Output
          e(k) == ratings[out[k].id]
      IN  /\ { out[k].id : k \in 1..Len(out) } = DOMAIN ratings
          /\ Len(out) = Cardinality(DOMAIN ratings)
          /\ \A i, j \in 1..Len(out) :
                i < j =>
                   \/ e(i).rating < e(j).rating
                   \/ e(i).rating = e(j).rating /\ e(i).added_at >= e(j).added_at

\* the store {a: (t1, 2), b: (t3, 2), c: (t2, 4)} gives b, a, c
C16_Witness ==
    /\ Ranked
    /\ ratings = (1 :> TimeRating(1, 2)) @@ (2 :> TimeRating(3, 2))
                   @@ (3 :> TimeRating(2, 4))
    /\ Len(Output) = 3
    /\ << Output[1].id, Output[2].id, Output[3].id >> = << 2, 1, 3 >>

\* C17: the feed is a function of the map alone: whatever order the entries
\* are collected in, the run produces the same feed, also when two entries
\* have the same rating and the same added_at. (Stated for the maps whose
\* iteration orders are all enumerated.)
C17_Deterministic ==
    (Ranked /\ Cardinality(DOMAIN ratings) <= MaxPermLen) =>
        \A order \in IterOrders(ratings) :
            \E tie \in TieModes :
                WeightsOf(SortVec(CollectVec(ratings, order)), tie) = weights

\* the emitted weight w (in hundredths) is 10 - (10/n) * i rounded to two
\* fractional digits: no hundredth is nearer to the exact value
Nearest(w, n, i) ==
    LET d == w * n - 1000 * (n - i)
    IN  2 * d <= n /\ -2 * d <= n

\* C18 as stated: for n >= 1 entries the weight at 0-based rank i is
\* 10 - (10/n) * i rounded to two fractional digits, the first weight is
\* 10.00, the emitted weights are strictly decreasing along the rank order
\* (so strictly decreasing in rating when the ratings strictly increase), and
\* the last weight is greater than 0.
C18_StrictWeights ==
    (Ranked /\ Len(Output) >= 1) =>
      LET out == Output
          n == Len(out)
      IN  /\ out[1].weight = 1000
          /\ \A k \in 1..n : Nearest(out[k].weight, n, k - 1)
          /\ \A k \in 1..(n - 1) : out[k].weight > out[k + 1].weight
          /\ out[n].weight > 0

\* C18, amended: for n >= 1 entries the weight at 0-based rank i is
\* 10 - (10/n) * i rounded to two fractional digits and the first weight is
\* 10.00. The emitted weights never increase along the rank order; they are
\* strictly decreasing (also in rating, where ratings strictly increase) when
\* n <= 1000. The last weight is never negative and is greater than 0 when
\* n < 2000.
C18_Weights ==
    (Ranked /\ Len(Output) >= 1) =>
      LET out == Output
          n == Len(out)
      IN  /\ out[1].weight = 1000
          /\ \A k \in 1..n : Nearest(out[k].weight, n, k - 1)
          /\ \A k \in 1..(n - 1) :
                /\ out[k].weight >= out[k + 1].weight
                /\ n <= 1000 => out[k].weight > out[k + 1].weight
                /\ (n <= 1000 /\ ratings[out[k].id].rating
                                   < ratings[out[k + 1].id].rating)
                      => out[k].weight > out[k + 1].weight
          /\ out[n].weight >= 0
          /\ n < 2000 => out[n].weight > 0

\* 1000 entries get the 1000 two-digit weights from 10.00 down to 0.01
C18_Witness ==
    /\ Ranked
    /\ Len(Output) = 1000
    /\ Output[1].weight = 1000
    /\ Output[2].weight = 999
    /\ Output[1000].weight = 1
    /\ ratings[Output[1].id].rating < ratings[Output[2].id].rating

\* C19: weights on an empty store comes to no error or panic from the
\* division 10 / n and creates an empty feed: no entry and no delimiter.
C19_EmptyStore ==
    [][(cmd = "weights" /\ ratings_vec = << >>) =>
          /\ pc = "collected" => (pc' = "sorted" /\ ratings_vec' = << >>)
          /\ pc = "sorted" => (pc' = "egress" /\ weights' = << >>)]_vars

C19_Witness ==
    /\ Ranked
    /\ db = Serialize(EmptyMap)
    /\ ratings = EmptyMap
    /\ ratings_vec = << >>
    /\ weights = << >>

\* C20: populate terminates. When every add-items call returns and the
\* tasks are scheduled fairly, no task makes more than 4 calls, every task
\* settles and populate_playlist returns, whatever the remote answers, also
\* when it fails every call.
C20_Terminates ==
    /\ [](Populating => \A c \in 1..Len(tasks) : tasks[c].calls <= max_retries + 1)
    /\ (pc = "join_populate") ~>
          (pc = "done" /\ AllTasksSettled /\ populateRes = "Ok")

\* both chunks were refused four times and populate has returned
C20_Witness ==
    /\ pc = "done"
    /\ Len(tasks) = 2
    /\ \A c \in 1..2 :
          /\ tasks[c].st = "failed"
          /\ tasks[c].calls = max_retries + 1
          /\ tasks[c].log = << "err", "err", "err", "err" >>
    /\ TargetItems = << >>

\* the elements of a sequence
Range(seq) == { seq[i] : i \in 1..Len(seq) }

\* the ids of the chunks in the set cs
IdsOf(cs) == UNION { Range(tasks[c].chunk) : c \in cs }

\* the chunks that were not printed as failed
ReportedOk == { c \in 1..Len(tasks) : c \notin Range(reports) }

\* C21: top, a failed add-items call applying nothing. No call of a task
\* follows its successful one, at every moment the playlist holds every id
\* of the chunks applied so far once and nothing else, and when the run has
\* completed these are the chunks not reported failed: with no report the
\* playlist holds exactly the fetched ids, each once, and none of the items
\* it held before the run.
C21_AppliedOnce ==
    Populating =>
      /\ \A c \in 1..Len(tasks) :
            /\ tasks[c].calls =
                  Len(tasks[c].log) + (IF tasks[c].st = "calling" THEN 1 ELSE 0)
            /\ \A i \in 1..Len(tasks[c].log) :
                  tasks[c].log[i] = "ok" =>
                     i = Len(tasks[c].log) /\ tasks[c].st = "ok"
      /\ Range(TargetItems) =
            IdsOf({ c \in 1..Len(tasks) : tasks[c].st = "ok" })
      /\ Len(TargetItems) = Cardinality(Range(TargetItems))
      /\ pc = "done" =>
            /\ Range(TargetItems) = IdsOf(ReportedOk)
            /\ reports = << >> =>
                  /\ Range(TargetItems) = Range(song_ids)
                  /\ Len(TargetItems) = Len(song_ids)
                  /\ 0 \notin Range(TargetItems)

\* an existing playlist was emptied, chunk 1 was applied at its third call
\* and chunk 2 was refused four times
C21_Witness ==
    /\ pc = "done"
    /\ api_calls.replace = 1
    /\ Len(tasks) = 2
    /\ tasks[1].log = << "err", "err", "ok" >>
    /\ tasks[2].st = "failed"
    /\ reports = << 2 >>
    /\ TargetItems = tasks[1].chunk
    /\ Len(TargetItems) = populate_batch_size

=============================================================================
